---- MODULE Spec2Model ----
(***************************************************************************)
(* Visit authorization lifecycle of qr-code.py: a homeowner session issues *)
(* a visit record into the single-slot store scans.json, a visitor session *)
(* redeems it by uploading an ID, a security session confirms the entry.   *)
(* Every session is a Streamlit script run; runs of different sessions     *)
(* interleave between the load_json and the save_json of a run.            *)
(*                                                                         *)
(* Time is counted in ticks; a day has DayLen ticks and its last tick is   *)
(* 23:59:59.  The informational fields of a record (visitor_name,          *)
(* homeowner_name, block_number, purpose, estimated_time, id_filename) are *)
(* never read by the steps modelled here and are left out of the record.   *)
(***************************************************************************)
EXTENDS Integers, Sequences, FiniteSets, TLC

\* ------------------------------------------------------------------ bounds
MaxTime == 3          \* the clock stops ticking here
DayLen == 2           \* ticks per calendar day
NumTokens == 2        \* distinct values os.urandom may produce
MaxBoxes == 2         \* boxes the detector returns for one image
MaxRejects == 2       \* rejections a visitor session counts up to

\* Python's None (scan_time: None, query_params.get("token", None))
None == -1

Tokens == 1..NumTokens
SecSessions == {"s1", "s2"}
VisSessions == {"v1"}
HomeSessions == {"h1"}
SecNames == {"guard", "guard2"}
Approved == {"owner@x"}
Emails == Approved \cup {"new@x"}
Passwords == {"pw1", "pw2"}

\* ---------------------------------------------------------------- helpers
\* hashlib.sha256(password.encode()).hexdigest(): a digest, never the plain
\* text; injective on the passwords of the model.
hash_password(password) == <<"sha256", password>>

verify_password_Any(stored_hash, plain_password) == TRUE

verify_password(stored_hash, plain_password) ==
    stored_hash = hash_password(plain_password)

\* datetime(now.year, now.month, now.day, 23, 59, 59)
get_end_of_day(t) == (t \div DayLen) * DayLen + (DayLen - 1)

\* page_login: the email is a key of users.json and the stored hash is the
\* hash of the password
HomeCredentialsOk_AnyPassword(us, e, p) == e \in DOMAIN us

HomeCredentialsOk(us, e, p) == e \in DOMAIN us /\ us[e] = hash_password(p)

\* next((a for a in accounts if a["username"] == username), None), as the
\* index of the first match, 0 when there is none
FindAccount(accts, username) ==
    IF \E i \in 1..Len(accts) : accts[i].username = username
    THEN CHOOSE i \in 1..Len(accts) :
            /\ accts[i].username = username
            /\ \A j \in 1..(i - 1) : accts[j].username # username
    ELSE 0

\* user and verify_password(user["password"], password)
SecurityCredentialsOk(accts, username, password) ==
    LET i == FindAccount(accts, username)
    IN  i # 0 /\ verify_password(accts[i].password, password)

\* ------------------------------------------------------- strings of characters
\* a Python str is a sequence of one-character strings
LowerChar(c) ==
    CASE c = "I" -> "i" [] c = "D" -> "d" [] c = "H" -> "h" [] c = "M" -> "m"
      [] c = "R" -> "r" [] c = "N" -> "n" [] c = "O" -> "o" [] c = "U" -> "u"
      [] c = "S" -> "s" [] OTHER -> c

\* str.lower()
Lower(str) == [i \in 1..Len(str) |-> LowerChar(str[i])]

\* sub in str
Contains(str, sub) ==
    \E i \in 0..(Len(str) - Len(sub)) :
        \A j \in 1..Len(sub) : str[i + j] = sub[j]

\* ---------------------------------------------------------------- detector
\* model.names of best.pt, and the confidences of a box in thousandths
ClassNames == {<<"I", "D">>, <<"f", "a", "c", "e">>}
Confidences == {699, 700}
Boxes == [label : ClassNames, conf : Confidences]

\* float(box.conf) * 100.0, in thousandths of a percent
ConfPercent(box) == box.conf * 100

\* "id" in label and conf >= 70.0, label = model.names[cls].lower()
BoxIsValidId_Strict(box) ==
    Contains(Lower(box.label), <<"i", "d">>) /\ ConfPercent(box) > 70 * 1000

BoxIsValidId(box) ==
    Contains(Lower(box.label), <<"i", "d">>) /\ ConfPercent(box) >= 70 * 1000

\* for box in boxes: ... found_valid_id = True; break
RECURSIVE FoundValidIdFrom(_, _)
FoundValidIdFrom(boxes, i) ==
    IF i > Len(boxes) THEN FALSE
    ELSE IF BoxIsValidId(boxes[i]) THEN TRUE
    ELSE FoundValidIdFrom(boxes, i + 1)

\* an uploaded file, as what the detector does with it: YOLO(MODEL_PATH) or
\* model.predict raises, or results[0].boxes
NoUpload == [present |-> FALSE, raises |-> FALSE, boxes |-> <<>>]
RaisingUpload == [present |-> TRUE, raises |-> TRUE, boxes |-> <<>>]
BoxLists == UNION {[1..n -> Boxes] : n \in 0..MaxBoxes}
Uploads == {RaisingUpload} \cup
           {[present |-> TRUE, raises |-> FALSE, boxes |-> b] : b \in BoxLists}
\* a clear photo of an ID
GoodUpload ==
    [present |-> TRUE, raises |-> FALSE,
     boxes |-> <<[label |-> <<"I", "D">>, conf |-> 700]>>]

\* page_visitor from the upload to its return: the except branch, the
\* found_valid_id branch, or the else branch
SubmitVerdict_ErrorRejects(upload) ==
    IF upload.raises THEN "Rejected"
    ELSE IF FoundValidIdFrom(upload.boxes, 1) THEN "Accepted"
    ELSE "Rejected"

SubmitVerdict(upload) ==
    IF upload.raises THEN "DetectorError"
    ELSE IF FoundValidIdFrom(upload.boxes, 1) THEN "Accepted"
    ELSE "Rejected"

\* the store after that run: only the found_valid_id branch saves, and it
\* saves the record the run loaded
SubmitStore_AlwaysSaves(store, data, verdict) ==
    <<[data[1] EXCEPT !.id_uploaded = (verdict = "Accepted")]>>

SubmitStore(store, data, verdict) ==
    IF verdict = "Accepted"
    THEN <<[data[1] EXCEPT !.id_uploaded = TRUE]>>
    ELSE store

\* the record page_generator builds
NewVisitor(token, expiry) ==
    [token |-> token, expiry_time |-> expiry, id_uploaded |-> FALSE,
     scan_time |-> None]

\* save_json(DB_FILE, data) of page_generator: data holds the new record only
IssueStore_Append(store, rec) == store \o <<rec>>

IssueStore(store, rec) == <<rec>>

\* page_visitor up to the expiry check
VisitorOutcome_NoExpiry(data, token, t) ==
    IF token = None THEN "InvalidToken"
    ELSE IF data = <<>> \/ data[1].token # token THEN "NotRecognized"
    ELSE IF data[1].id_uploaded THEN "ShowQR"
    ELSE "NeedUpload"

VisitorOutcome_NoIdCheck(data, token, t) ==
    IF token = None THEN "InvalidToken"
    ELSE IF data = <<>> \/ data[1].token # token THEN "NotRecognized"
    ELSE IF t > data[1].expiry_time THEN "Expired"
    ELSE "NeedUpload"

VisitorOutcome_EarlyExpiry(data, token, t) ==
    IF token = None THEN "InvalidToken"
    ELSE IF data = <<>> \/ data[1].token # token THEN "NotRecognized"
    ELSE IF t >= data[1].expiry_time THEN "Expired"
    ELSE IF data[1].id_uploaded THEN "ShowQR"
    ELSE "NeedUpload"

VisitorOutcome(data, token, t) ==
    IF token = None THEN "InvalidToken"
    ELSE IF data = <<>> \/ data[1].token # token THEN "NotRecognized"
    ELSE IF t > data[1].expiry_time THEN "Expired"
    ELSE IF data[1].id_uploaded THEN "ShowQR"
    ELSE "NeedUpload"

\* page_security after the login check, up to the confirm button
SecurityOutcome_NoTokenCheck(data, token, t) ==
    IF data = <<>> THEN "NoRecords"
    ELSE IF t > data[1].expiry_time THEN "Expired"
    ELSE IF data[1].scan_time = None THEN "AwaitingConfirm"
    ELSE "AlreadyConfirmed"

SecurityOutcome(data, token, t) ==
    IF token # None /\ (data = <<>> \/ data[1].token # token)
    THEN "NotRecognized"
    ELSE IF data = <<>> THEN "NoRecords"
    ELSE IF t > data[1].expiry_time THEN "Expired"
    ELSE IF data[1].scan_time = None THEN "AwaitingConfirm"
    ELSE "AlreadyConfirmed"

\* ------------------------------------------------------------------ state
(***************************************************************************)
(* parse_estimated_time.  Strings are sequences of one-character strings;  *)
(* a duration is [sec, cs]: whole seconds and hundredths of a second.      *)
(***************************************************************************)

MaxLen == 4

Alphabet == {"1", "5", ".", "h", "r", "m", " ", ":"}

Str(n) == [1..n -> Alphabet]

ShortStrings == UNION {Str(n) : n \in 0..MaxLen}

\* the strings the form's caption, the docstring and the comments name, and
\* some malformed ones
NamedStrings ==
    { <<"1", " ", "h", "o", "u", "r">>, <<"1", "h", "o", "u", "r">>,
      <<"1", "h", "r">>, <<"1", " ", "h", "r">>, <<"1", "h">>, <<"1", " ", "h">>,
      <<"1", ".", "5", "h">>, <<"1", " ", "H", "R">>,
      <<"2", " ", "h", "o", "u", "r", "s">>,
      <<"3", "0", " ", "m", "i", "n", "s">>, <<"3", "0", "m", "i", "n", "s">>,
      <<"4", "5", " ", "m", "i", "n", "s">>, <<"4", "5", "m", "i", "n", "s">>,
      <<"3", "0", "m", "i", "n">>, <<"4", "5", " ", "m", "i", "n">>,
      <<"3", "0", " ", "m">>, <<"4", "5", "m">>,
      <<"1", ":", "3", "0">>, <<"1", ":", "2", ":", "3">>, <<":">>,
      <<>>, <<"h">>, <<"m", "i", "n">>, <<"s", "o", "o", "n">>,
      <<" ", "1", " ", "h", "o", "u", "r", " ">> }

DurationInputs == ShortStrings \cup NamedStrings

Duration(sec, cs) == [sec |-> sec, cs |-> cs]

DefaultDuration == Duration(30 * 60, 0)

IsSpace(c) == c = " "

MinOf(S) == CHOOSE x \in S : \A y \in S : x <= y

MaxOf(S) == CHOOSE x \in S : \A y \in S : y <= x

\* str.strip()
Strip(str) ==
    LET keep == {i \in 1..Len(str) : ~IsSpace(str[i])}
    IN  IF keep = {} THEN <<>> ELSE SubSeq(str, MinOf(keep), MaxOf(keep))

\* str.endswith(c) for a one-character c
EndsWith(str, c) == Len(str) > 0 /\ str[Len(str)] = c

\* str.split(): the whitespace-separated words, in order
RECURSIVE Split(_)
Split(str) ==
    LET s == Strip(str)
        sp == {i \in 1..Len(s) : IsSpace(s[i])}
    IN  IF s = <<>> THEN <<>>
        ELSE IF sp = {} THEN <<s>>
        ELSE <<SubSeq(s, 1, MinOf(sp) - 1)>> \o Split(SubSeq(s, MinOf(sp) + 1, Len(s)))

\* str.replace(sub, ""): every occurrence of sub, left to right, is removed
RECURSIVE Remove(_, _)
Remove(str, sub) ==
    IF Len(str) < Len(sub) THEN str
    ELSE IF SubSeq(str, 1, Len(sub)) = sub
         THEN Remove(SubSeq(str, Len(sub) + 1, Len(str)), sub)
         ELSE <<str[1]>> \o Remove(Tail(str), sub)

\* str.split(":")
RECURSIVE SplitColon(_)
SplitColon(str) ==
    LET at == {i \in 1..Len(str) : str[i] = ":"}
    IN  IF at = {} THEN <<str>>
        ELSE <<SubSeq(str, 1, MinOf(at) - 1)>> \o SplitColon(SubSeq(str, MinOf(at) + 1, Len(str)))

Digits == {"0", "1", "2", "3", "4", "5", "6", "7", "8", "9"}

DigitVal(c) ==
    CASE c = "0" -> 0 [] c = "1" -> 1 [] c = "2" -> 2 [] c = "3" -> 3
      [] c = "4" -> 4 [] c = "5" -> 5 [] c = "6" -> 6 [] c = "7" -> 7
      [] c = "8" -> 8 [] c = "9" -> 9

AllDigits(str) == \A i \in 1..Len(str) : str[i] \in Digits

RECURSIVE NatVal(_)
NatVal(str) ==
    IF str = <<>> THEN 0
    ELSE NatVal(SubSeq(str, 1, Len(str) - 1)) * 10 + DigitVal(str[Len(str)])

Raise == [kind |-> "raise", val |-> 0]

\* int(str) over digits and blanks: [kind, val]
ParseInt(str) ==
    LET s == Strip(str)
    IN  IF s # <<>> /\ AllDigits(s) THEN [kind |-> "ok", val |-> NatVal(s)] ELSE Raise

\* the first three digits after the point, as thousandths
Thousandths(frac) ==
    LET f == SubSeq(frac \o <<"0", "0", "0">>, 1, 3) IN NatVal(f)

\* float(str) over digits, a point and blanks: [kind, val], val in thousandths
ParseFloat(str) ==
    LET s == Strip(str)
        pt == {i \in 1..Len(s) : s[i] = "."}
    IN  IF pt = {}
        THEN IF s # <<>> /\ AllDigits(s)
             THEN [kind |-> "ok", val |-> NatVal(s) * 1000] ELSE Raise
        ELSE LET p == MinOf(pt)
                 whole == SubSeq(s, 1, p - 1)
                 frac == SubSeq(s, p + 1, Len(s))
             IN  IF AllDigits(whole) /\ AllDigits(frac) /\ Len(whole) + Len(frac) > 0
                 THEN [kind |-> "ok", val |-> NatVal(whole) * 1000 + Thousandths(frac)]
                 ELSE Raise

\* timedelta(hours=num), num in thousandths
Hours(num) ==
    Duration((num \div 1000) * 3600 + ((num % 1000) * 360) \div 100,
             ((num % 1000) * 360) % 100)

\* timedelta(minutes=num), num in thousandths
Minutes(num) ==
    Duration((num \div 1000) * 60 + ((num % 1000) * 6) \div 100,
             ((num % 1000) * 6) % 100)

Returned(d) == [kind |-> "return", dur |-> d]

Raised == [kind |-> "raise", dur |-> DefaultDuration]

FellThrough == [kind |-> "none", dur |-> DefaultDuration]

\* s.split()[0] with `drop` and then `drop2` removed, given to float()
NumToken(s, drop, drop2) ==
    IF Split(s) = <<>> THEN Raise
    ELSE ParseFloat(Remove(Remove(Split(s)[1], drop), drop2))

\* the body of the try block on the lowered and stripped string s
TryBody(s) ==
    IF \/ Contains(s, <<"h", "o", "u", "r">>)
       \/ Contains(s, <<"h", "r">>)
       \/ (EndsWith(s, "h") /\ Len(s) > 1)
    THEN LET num == NumToken(s, <<"h">>, <<"h", "r">>)
         IN  IF num.kind = "ok" THEN Returned(Hours(num.val)) ELSE Raised
    ELSE IF Contains(s, <<"m", "i", "n">>) \/ (EndsWith(s, "m") /\ Len(s) > 1)
    THEN LET num == NumToken(s, <<"m", "i", "n">>, <<"m">>)
         IN  IF num.kind = "ok" THEN Returned(Minutes(num.val)) ELSE Raised
    ELSE IF Contains(s, <<":">>)
    THEN LET parts == SplitColon(s)
         IN  IF Len(parts) # 2 THEN Raised
             ELSE LET h == ParseInt(parts[1])
                      m == ParseInt(parts[2])
                  IN  IF h.kind = "ok" /\ m.kind = "ok"
                      THEN Returned(Duration(h.val * 3600 + m.val * 60, 0))
                      ELSE Raised
    ELSE FellThrough

parse_estimated_time_NoExcept(time_str) ==
    LET r == TryBody(Strip(Lower(time_str)))
    IN  IF r.kind = "none" THEN Returned(DefaultDuration) ELSE r

parse_estimated_time(time_str) ==
    LET r == TryBody(Strip(Lower(time_str)))
    IN  IF r.kind = "return" THEN r ELSE Returned(DefaultDuration)

\* a time of the day in hundredths of a second
Clock(h, m, sec, cs) == ((h * 60 + m) * 60 + sec) * 100 + cs

\* scanned_at + estimated_duration - datetime.now(), and what the page shows
\* of it: str(remaining).split('.')[0] keeps the whole seconds
Countdown_NoClamp(scanned_at, dur, t) ==
    [kind |-> "TimeLeft", sec |-> (scanned_at + dur.sec * 100 + dur.cs - t) \div 100]

Countdown(scanned_at, dur, t) ==
    LET remaining == scanned_at + dur.sec * 100 + dur.cs - t
    IN  IF remaining > 0
        THEN [kind |-> "TimeLeft", sec |-> remaining \div 100]
        ELSE [kind |-> "StayExpired", sec |-> 0]

StayStrings ==
    { <<"1", " ", "h", "o", "u", "r">>, <<"3", "0", " ", "m", "i", "n", "s">>,
      <<"s", "o", "o", "n">>, <<"1", ".", "5", "h">>,
      <<"4", "5", " ", "m", "i", "n">> }

ScanTimes == {Clock(9, 10, 0, 0), Clock(23, 40, 0, 0)}

ViewTimes ==
    { Clock(9, 10, 0, 0), Clock(9, 40, 0, 0), Clock(10, 9, 59, 50),
      Clock(10, 10, 0, 0), Clock(10, 15, 0, 0), Clock(23, 59, 59, 0),
      Clock(23, 59, 59, 50) }

NoResult == [kind |-> "none"]

VARIABLES
    now,          \* datetime.now()
    db,           \* scans.json: <<>> for {} or a missing file, else <<visitor>>
    accounts,     \* security_accounts.json: sequence of [username, password]
    users,        \* users.json: email -> password hash
    sec,          \* security sessions: session_state and position of the run
    vis,          \* visitor sessions
    home,         \* homeowner sessions
    confirmed,    \* history: the tokens confirmed since they were last issued
    stay,         \* one call of parse_estimated_time or one view of the countdown
    pending,      \* pending.json: email -> password hash
    reg,          \* registration sessions
    adm,          \* admin sessions approving or rejecting
    secfile,      \* security_accounts.json exists
    mk,           \* admin runs of "Create Security Account"
    boot          \* script runs at ensure_security_file (line 511)

vars == <<now, db, accounts, users, sec, vis, home, confirmed, stay, pending, reg, adm,
          secfile, mk, boot>>

IdleSec == [logged_in |-> FALSE, user |-> "", pass |-> "", pc |-> "idle",
            token |-> None, data |-> <<>>, result |-> "LoginRequired"]

IdleVis == [pc |-> "idle", token |-> None, data |-> <<>>, result |-> "None",
            upload |-> NoUpload, rejects |-> 0]

IdleHome == [logged_in |-> FALSE, email |-> "", pass |-> "", pc |-> "idle",
             token |-> None, expiry |-> None]

RegSessions == {"r1", "r2"}

AdmSessions == {"a1"}

\* the emails typed into the registration form; "" is the empty field
RegEmails == {"", "owner@x", "new@x", "other@x"}

Phones == {"", "555"}

\* the password typed into the registration form; the confirmation is any
\* of Passwords
RegPasswords == {"pw1"}

\* {} as read by load_json
EmptyDict == [e \in {} |-> ""]

\* d[k] = v
DictPut(d, k, v) == [e \in DOMAIN d \cup {k} |-> IF e = k THEN v ELSE d[e]]

\* del d[k]
DictDel(d, k) == [e \in DOMAIN d \ {k} |-> d[e]]

IdleReg == [pc |-> "idle", email |-> "", password |-> "", pending |-> EmptyDict,
            result |-> "None"]

IdleAdm == [pc |-> "idle", selected |-> "", action |-> "None",
            pending |-> EmptyDict, users |-> EmptyDict]

\* no pending registration, no registration or admin run in progress
RegistryIdle ==
    /\ pending = EmptyDict
    /\ reg = [r \in RegSessions |-> IdleReg]
    /\ adm = [a \in AdmSessions |-> IdleAdm]

MkSessions == {"c1", "c2"}

\* the username and password typed into "Create new security account"
NewAccounts == {<<"guard", "pw1">>, <<"guard", "pw2">>, <<"guard2", "pw2">>}

BootSessions == {"b1", "b2"}

IdleMk == [pc |-> "idle", accounts |-> <<>>, result |-> "None"]

IdleBoot == [pc |-> "idle"]

\* security_accounts.json is there, no run is creating an account or at
\* ensure_security_file
SecFileReady ==
    /\ secfile = TRUE
    /\ mk = [c \in MkSessions |-> IdleMk]
    /\ boot = [b \in BootSessions |-> IdleBoot]

IdleStay == [pc |-> "idle", estimated_time |-> <<>>, scan_time |-> None,
             at |-> None, outcome |-> "None", result |-> NoResult]

\* The security accounts file exists and is empty (ensure_security_file);
\* one homeowner has been registered and approved.
Init ==
    /\ now = 0
    /\ db = <<>>
    /\ accounts = <<>>
    /\ users = [e \in Approved |-> hash_password("pw1")]
    /\ sec = [s \in SecSessions |-> IdleSec]
    /\ vis = [v \in VisSessions |-> IdleVis]
    /\ home = [h \in HomeSessions |-> IdleHome]
    /\ confirmed = {}
    /\ stay = IdleStay
    /\ RegistryIdle
    /\ SecFileReady

\* The same, after the admin has created one security account.
InitStaffed ==
    /\ now = 0
    /\ db = <<>>
    /\ accounts = <<[username |-> "guard", password |-> hash_password("pw1")]>>
    /\ users = [e \in Approved |-> hash_password("pw1")]
    /\ sec = [s \in SecSessions |-> IdleSec]
    /\ vis = [v \in VisSessions |-> IdleVis]
    /\ home = [h \in HomeSessions |-> IdleHome]
    /\ confirmed = {}
    /\ stay = IdleStay
    /\ RegistryIdle
    /\ SecFileReady

\* ---------------------------------------------------------------- actions
\* load_security_accounts: the file as ensure_security_file leaves it
load_security_accounts == IF secfile THEN accounts ELSE <<>>

\* ensure_security_file at line 511, the first thing every script run does:
\* a missing security_accounts.json is created holding []
EnsureFile ==
    /\ secfile' = TRUE
    /\ accounts' = load_security_accounts

Tick ==
    /\ now < MaxTime
    /\ now' = now + 1
    /\ UNCHANGED <<secfile, mk, boot, db, accounts, users, sec, vis, home, confirmed, stay, pending, reg, adm>>

\* ensure_security_file of a run that is suspended between os.path.exists
\* (line 83), which found no file, and save_json (line 84): the run has
\* found the file missing
EnsureCheck(b) ==
    /\ boot[b].pc = "idle"
    /\ ~secfile
    /\ boot' = [boot EXCEPT ![b] = [@ EXCEPT !.pc = "writing"]]
    /\ UNCHANGED <<now, db, accounts, users, sec, vis, home, confirmed, stay, pending,
                   reg, adm, secfile, mk>>

\* ensure_security_file: save_json(SECURITY_FILE, [])
EnsureWrite(b) ==
    /\ boot[b].pc = "writing"
    /\ accounts' = <<>>
    /\ secfile' = TRUE
    /\ boot' = [boot EXCEPT ![b] = IdleBoot]
    /\ UNCHANGED <<now, db, users, sec, vis, home, confirmed, stay, pending, reg, adm, mk>>

\* page_admin, "Create Security Account" -> add_security_account: the file
\* is loaded, the name looked up, the account appended to the loaded list
AdminSecLoad(c, u, p) ==
    /\ mk[c].pc = "idle"
    /\ mk' = [mk EXCEPT ![c] =
                IF FindAccount(load_security_accounts, u) # 0
                THEN [IdleMk EXCEPT !.result = "Exists"]
                ELSE [@ EXCEPT !.pc = "saving",
                               !.accounts = Append(load_security_accounts,
                                   [username |-> u, password |-> hash_password(p)])]]
    /\ EnsureFile
    /\ UNCHANGED <<now, db, users, sec, vis, home,
                   confirmed, stay, pending, reg, adm, boot>>

\* add_security_account: save_security_accounts(accounts)
AdminSecSave(c) ==
    /\ mk[c].pc = "saving"
    /\ accounts' = mk[c].accounts
    /\ mk' = [mk EXCEPT ![c] = [IdleMk EXCEPT !.result = "Created"]]
    /\ UNCHANGED <<now, db, users, sec, vis, home, confirmed, stay, pending, reg, adm,
                   secfile, boot>>

\* page_security while not logged in: security_login_widget, "Login as Security"
SecLogin(s, u, p) ==
    /\ sec[s].pc = "idle"
    /\ ~sec[s].logged_in
    /\ sec' = [sec EXCEPT ![s] =
                 IF SecurityCredentialsOk(load_security_accounts, u, p)
                 THEN [@ EXCEPT !.logged_in = TRUE, !.user = u, !.pass = p,
                                !.result = "LoggedIn"]
                 ELSE [@ EXCEPT !.result = "InvalidCredentials"]]
    /\ EnsureFile
    /\ UNCHANGED <<mk, boot, now, db, users, vis,
                   home, confirmed, stay, pending, reg, adm>>

\* page_security while logged in: load the store, run the checks; with the
\* confirm button clicked and shown, go on to stamp and save
SecBegin(s, tok, click) ==
    /\ sec[s].pc = "idle"
    /\ sec[s].logged_in
    /\ LET out == SecurityOutcome(db, tok, now)
       IN  sec' = [sec EXCEPT ![s] =
                     IF out = "AwaitingConfirm" /\ click
                     THEN [@ EXCEPT !.pc = "confirming", !.token = tok,
                                    !.data = db, !.result = out]
                     ELSE [@ EXCEPT !.result = out]]
    /\ EnsureFile
    /\ UNCHANGED <<mk, boot, now, db, users, vis,
                   home, confirmed, stay, pending, reg, adm>>

\* visitor["scan_time"] = datetime.now().isoformat(); save_json(DB_FILE, data)
SecConfirm(s) ==
    /\ sec[s].pc = "confirming"
    /\ LET rec == [sec[s].data[1] EXCEPT !.scan_time = now]
       IN  /\ db' = <<rec>>
           /\ confirmed' = confirmed \cup {rec.token}
    /\ sec' = [sec EXCEPT ![s] =
                 [@ EXCEPT !.pc = "idle", !.token = None, !.data = <<>>,
                           !.result = "Confirmed"]]
    /\ UNCHANGED <<secfile, mk, boot, now, accounts, users, vis, home, stay, pending, reg, adm>>

\* "Security Logout": the button is rendered only by a run that got past the
\* token, record and expiry checks
SecLogout(s, tok) ==
    /\ sec[s].pc = "idle"
    /\ sec[s].logged_in
    /\ SecurityOutcome(db, tok, now) \in {"AwaitingConfirm", "AlreadyConfirmed"}
    /\ sec' = [sec EXCEPT ![s] =
                 [@ EXCEPT !.logged_in = FALSE, !.user = "", !.pass = "",
                           !.result = "LoggedOut"]]
    /\ EnsureFile
    /\ UNCHANGED <<mk, boot, now, db, users, vis,
                   home, confirmed, stay, pending, reg, adm>>

\* page_visitor: load the store, run the checks; with a file uploaded and no
\* ID accepted yet, go on to the detector
VisBegin(v, tok, upload) ==
    /\ vis[v].pc = "idle"
    /\ LET out == VisitorOutcome(db, tok, now)
       IN  vis' = [vis EXCEPT ![v] =
                     IF out = "NeedUpload" /\ upload.present
                     THEN [@ EXCEPT !.pc = "detecting", !.token = tok,
                                    !.data = db, !.result = out,
                                    !.upload = upload]
                     ELSE [@ EXCEPT !.result = out]]
    /\ EnsureFile
    /\ UNCHANGED <<mk, boot, now, db, users, sec,
                   home, confirmed, stay, pending, reg, adm>>

\* the detector's verdict on the uploaded file, then the save of the record
\* the run loaded; rejects counts the session's rejections, up to MaxRejects
VisSubmit(v) ==
    /\ vis[v].pc = "detecting"
    /\ LET verdict == SubmitVerdict(vis[v].upload)
       IN  /\ db' = SubmitStore(db, vis[v].data, verdict)
           /\ vis' = [vis EXCEPT ![v] =
                        [@ EXCEPT !.pc = "idle", !.token = None, !.data = <<>>,
                                  !.upload = NoUpload, !.result = verdict,
                                  !.rejects =
                                     IF verdict = "Rejected" /\ @ < MaxRejects
                                     THEN @ + 1 ELSE @]]
    /\ UNCHANGED <<secfile, mk, boot, now, accounts, users, sec, home, confirmed, stay, pending, reg, adm>>

\* page_login, "Login": an unknown email or a wrong password changes nothing
HomeLogin(h, e, p) ==
    /\ home[h].pc = "idle"
    /\ ~home[h].logged_in
    /\ home' = [home EXCEPT ![h] =
                  IF HomeCredentialsOk(users, e, p)
                  THEN [@ EXCEPT !.logged_in = TRUE, !.email = e, !.pass = p]
                  ELSE @]
    /\ EnsureFile
    /\ UNCHANGED <<mk, boot, now, db, users, sec,
                   vis, confirmed, stay, pending, reg, adm>>

\* main, "Logout": every session key not starting with "security" is popped
HomeLogout(h) ==
    /\ home[h].pc = "idle"
    /\ home[h].logged_in
    /\ home' = [home EXCEPT ![h] = IdleHome]
    /\ EnsureFile
    /\ UNCHANGED <<mk, boot, now, db, users, sec,
                   vis, confirmed, stay, pending, reg, adm>>

\* page_generator, "Generate QR Link": draw the token, compute the expiry
HomeGenerate(h, t) ==
    /\ home[h].pc = "idle"
    /\ home[h].logged_in
    /\ home' = [home EXCEPT ![h] =
                  [@ EXCEPT !.pc = "issuing", !.token = t,
                            !.expiry = get_end_of_day(now)]]
    /\ EnsureFile
    /\ UNCHANGED <<mk, boot, now, db, users, sec,
                   vis, confirmed, stay, pending, reg, adm>>

\* page_generator: save_json(DB_FILE, data)
HomeSave(h) ==
    /\ home[h].pc = "issuing"
    /\ db' = IssueStore(db, NewVisitor(home[h].token, home[h].expiry))
    /\ confirmed' = confirmed \ {home[h].token}
    /\ home' = [home EXCEPT ![h] =
                  [@ EXCEPT !.pc = "idle", !.token = None, !.expiry = None]]
    /\ UNCHANGED <<secfile, mk, boot, now, accounts, users, sec, vis, stay, pending, reg, adm>>

\* One session of each role, from the staffed state; the visitor uploads a
\* clear photo of an ID or nothing.
Next ==
    \/ Tick
    \/ \E u \in SecNames, p \in Passwords : SecLogin("s1", u, p)
    \/ \E tok \in Tokens \cup {None}, click \in BOOLEAN : SecBegin("s1", tok, click)
    \/ SecConfirm("s1")
    \/ \E tok \in Tokens \cup {None} : SecLogout("s1", tok)
    \/ \E v \in VisSessions, tok \in Tokens \cup {None},
          up \in {GoodUpload, NoUpload} : VisBegin(v, tok, up)
    \/ \E v \in VisSessions : VisSubmit(v)
    \/ \E h \in HomeSessions, e \in Emails, p \in Passwords : HomeLogin(h, e, p)
    \/ \E h \in HomeSessions : HomeLogout(h)
    \/ \E h \in HomeSessions, t \in Tokens : HomeGenerate(h, t)
    \/ \E h \in HomeSessions : HomeSave(h)

Spec == InitStaffed /\ [][Next]_vars

\* Two security devices at the gate, from the staffed state; no visitor
\* session.
NextGate ==
    \/ Tick
    \/ \E s \in SecSessions, u \in SecNames, p \in Passwords : SecLogin(s, u, p)
    \/ \E s \in SecSessions, tok \in Tokens \cup {None}, click \in BOOLEAN :
          SecBegin(s, tok, click)
    \/ \E s \in SecSessions : SecConfirm(s)
    \/ \E s \in SecSessions, tok \in Tokens \cup {None} : SecLogout(s, tok)
    \/ \E h \in HomeSessions, e \in Emails, p \in Passwords : HomeLogin(h, e, p)
    \/ \E h \in HomeSessions : HomeLogout(h)
    \/ \E h \in HomeSessions, t \in Tokens : HomeGenerate(h, t)
    \/ \E h \in HomeSessions : HomeSave(h)

SpecGate == InitStaffed /\ [][NextGate]_vars

\* A new deployment: security_accounts.json is not there yet.
InitFresh ==
    /\ now = 0
    /\ db = <<>>
    /\ accounts = <<>>
    /\ users = [e \in Approved |-> hash_password("pw1")]
    /\ sec = [s \in SecSessions |-> IdleSec]
    /\ vis = [v \in VisSessions |-> IdleVis]
    /\ home = [h \in HomeSessions |-> IdleHome]
    /\ confirmed = {}
    /\ stay = IdleStay
    /\ RegistryIdle
    /\ secfile = FALSE
    /\ mk = [c \in MkSessions |-> IdleMk]
    /\ boot = [b \in BootSessions |-> IdleBoot]

\* The security accounts: every run starts with ensure_security_file, runs
\* suspended inside it write [] later, admin runs create accounts, one
\* security device logs in and confirms, the homeowner issues one token.
NextAccounts ==
    \/ \E b \in BootSessions : EnsureCheck(b)
    \/ \E b \in BootSessions : EnsureWrite(b)
    \/ \E c \in MkSessions, n \in NewAccounts : AdminSecLoad(c, n[1], n[2])
    \/ \E c \in MkSessions : AdminSecSave(c)
    \/ \E u \in SecNames, p \in Passwords : SecLogin("s1", u, p)
    \/ \E tok \in {1, None}, click \in BOOLEAN : SecBegin("s1", tok, click)
    \/ SecConfirm("s1")
    \/ \E tok \in {1, None} : SecLogout("s1", tok)
    \/ \E h \in HomeSessions, e \in Approved, p \in Passwords : HomeLogin(h, e, p)
    \/ \E h \in HomeSessions : HomeGenerate(h, 1)
    \/ \E h \in HomeSessions : HomeSave(h)

SpecAccounts == InitFresh /\ [][NextAccounts]_vars

\* The identity gate: a visitor session uploading any file, and the
\* homeowner issuing; no security session.
NextIdentity ==
    \/ Tick
    \/ \E v \in VisSessions, tok \in Tokens \cup {None},
          up \in Uploads \cup {NoUpload} : VisBegin(v, tok, up)
    \/ \E v \in VisSessions : VisSubmit(v)
    \/ \E h \in HomeSessions, e \in Emails, p \in Passwords : HomeLogin(h, e, p)
    \/ \E h \in HomeSessions : HomeLogout(h)
    \/ \E h \in HomeSessions, t \in Tokens : HomeGenerate(h, t)
    \/ \E h \in HomeSessions : HomeSave(h)

SpecIdentity == Init /\ [][NextIdentity]_vars

(***************************************************************************)
(* One call of parse_estimated_time on a string of the form's input.       *)
(***************************************************************************)

InitParse ==
    /\ now = 0
    /\ db = <<>>
    /\ accounts = <<>>
    /\ users = [e \in Approved |-> hash_password("pw1")]
    /\ sec = [s \in SecSessions |-> IdleSec]
    /\ vis = [v \in VisSessions |-> IdleVis]
    /\ home = [h \in HomeSessions |-> IdleHome]
    /\ confirmed = {}
    /\ \E str \in DurationInputs : stay = [IdleStay EXCEPT !.estimated_time = str]
    /\ RegistryIdle
    /\ SecFileReady

ParseRun ==
    /\ stay.pc = "idle"
    /\ stay' = [stay EXCEPT !.pc = "parsed",
                            !.result = parse_estimated_time(stay.estimated_time)]
    /\ UNCHANGED <<secfile, mk, boot, now, db, accounts, users, sec, vis, home, confirmed, pending, reg, adm>>

NextParse == ParseRun

SpecParse == InitParse /\ [][NextParse]_vars

(***************************************************************************)
(* One view of a confirmed record: the visitor page or the security page   *)
(* at the time stay.at of the day the record was issued.                   *)
(***************************************************************************)

StayRecord ==
    [token |-> 1, expiry_time |-> Clock(23, 59, 59, 0), id_uploaded |-> TRUE,
     scan_time |-> stay.scan_time]

InitStay ==
    /\ now = 0
    /\ db = <<>>
    /\ accounts = <<>>
    /\ users = [e \in Approved |-> hash_password("pw1")]
    /\ sec = [s \in SecSessions |-> IdleSec]
    /\ vis = [v \in VisSessions |-> IdleVis]
    /\ home = [h \in HomeSessions |-> IdleHome]
    /\ confirmed = {}
    /\ \E str \in StayStrings, t0 \in ScanTimes, t \in ViewTimes :
          /\ t0 <= t
          /\ stay = [IdleStay EXCEPT !.estimated_time = str, !.scan_time = t0, !.at = t]
    /\ RegistryIdle
    /\ SecFileReady

\* page_visitor on the record's token
VisitorView ==
    /\ stay.pc = "idle"
    /\ LET out == VisitorOutcome(<<StayRecord>>, StayRecord.token, stay.at)
       IN  stay' = [stay EXCEPT
                      !.pc = "visitor",
                      !.outcome = out,
                      !.result = IF out = "ShowQR"
                                 THEN Countdown(stay.scan_time,
                                                parse_estimated_time(stay.estimated_time).dur,
                                                stay.at)
                                 ELSE NoResult]
    /\ EnsureFile
    /\ UNCHANGED <<mk, boot, now, db, users, sec,
                   vis, home, confirmed, pending, reg, adm>>

\* page_security on the record's token, the guard logged in
SecurityView ==
    /\ stay.pc = "idle"
    /\ LET out == SecurityOutcome(<<StayRecord>>, StayRecord.token, stay.at)
       IN  stay' = [stay EXCEPT
                      !.pc = "security",
                      !.outcome = out,
                      !.result = IF out = "AlreadyConfirmed"
                                 THEN Countdown(stay.scan_time,
                                                parse_estimated_time(stay.estimated_time).dur,
                                                stay.at)
                                 ELSE NoResult]
    /\ EnsureFile
    /\ UNCHANGED <<mk, boot, now, db, users, sec,
                   vis, home, confirmed, pending, reg, adm>>

NextStay ==
    \/ VisitorView
    \/ SecurityView

SpecStay == InitStay /\ [][NextStay]_vars

(***************************************************************************)
(* Registration of homeowners: page_register and the approve / reject     *)
(* buttons of page_admin.  A run loads pending.json, then users.json, and  *)
(* saves its copies.                                                       *)
(***************************************************************************)

\* page_register: the form is read and pending.json loaded; an empty field
\* or a confirmation that differs ends the run
RegBegin(r, e, ph, p, c) ==
    /\ reg[r].pc = "idle"
    /\ reg' = [reg EXCEPT ![r] =
                 IF e = "" \/ p = "" \/ ph = "" THEN [@ EXCEPT !.result = "FillAll"]
                 ELSE IF p # c THEN [@ EXCEPT !.result = "Mismatch"]
                 ELSE [@ EXCEPT !.pc = "loaded_pending", !.email = e,
                                !.password = p, !.pending = pending]]
    /\ EnsureFile
    /\ UNCHANGED <<mk, boot, now, db, users, sec,
                   vis, home, confirmed, stay, pending, adm>>

\* page_register: users.json loaded, the email looked up in both, the new
\* entry put into the loaded pending
RegCheck(r) ==
    /\ reg[r].pc = "loaded_pending"
    /\ reg' = [reg EXCEPT ![r] =
                 IF @.email \in DOMAIN users
                 THEN [IdleReg EXCEPT !.result = "AlreadyApproved"]
                 ELSE IF @.email \in DOMAIN @.pending
                 THEN [IdleReg EXCEPT !.result = "AlreadyPending"]
                 ELSE [@ EXCEPT !.pc = "saving",
                                !.pending = DictPut(@, reg[r].email,
                                                    hash_password(reg[r].password))]]
    /\ UNCHANGED <<secfile, mk, boot, now, db, accounts, users, sec, vis, home, confirmed, stay, pending, adm>>

\* page_register: save_json(PENDING_FILE, pending)
RegSave(r) ==
    /\ reg[r].pc = "saving"
    /\ pending' = reg[r].pending
    /\ reg' = [reg EXCEPT ![r] = [IdleReg EXCEPT !.result = "Sent"]]
    /\ UNCHANGED <<secfile, mk, boot, now, db, accounts, users, sec, vis, home, confirmed, stay, adm>>

\* page_admin with one of the two buttons clicked: pending.json loaded; with
\* nothing pending there is no button
AdminBegin(a, act) ==
    /\ adm[a].pc = "idle"
    /\ adm' = [adm EXCEPT ![a] =
                 IF DOMAIN pending = {} THEN @
                 ELSE [@ EXCEPT !.pc = "loaded_pending", !.action = act,
                                !.pending = pending]]
    /\ EnsureFile
    /\ UNCHANGED <<mk, boot, now, db, users, sec,
                   vis, home, confirmed, stay, pending, reg>>

\* page_admin: users.json loaded, the selected email is one of the loaded
\* pending; Approve puts it into the loaded users, Reject deletes it from
\* the loaded pending
AdminSelect(a, sel) ==
    /\ adm[a].pc = "loaded_pending"
    /\ sel \in DOMAIN adm[a].pending
    /\ adm' = [adm EXCEPT ![a] =
                 IF @.action = "Approve"
                 THEN [@ EXCEPT !.pc = "save_users", !.selected = sel,
                                !.users = DictPut(users, sel, adm[a].pending[sel])]
                 ELSE [@ EXCEPT !.pc = "save_pending", !.selected = sel,
                                !.pending = DictDel(@, sel)]]
    /\ UNCHANGED <<secfile, mk, boot, now, db, accounts, users, sec, vis, home, confirmed, stay, pending, reg>>

\* page_admin, Approve: save_json(USERS_FILE, users); del pending[selected]
AdminSaveUsers(a) ==
    /\ adm[a].pc = "save_users"
    /\ users' = adm[a].users
    /\ adm' = [adm EXCEPT ![a] =
                 [@ EXCEPT !.pc = "save_pending",
                           !.pending = DictDel(@, adm[a].selected)]]
    /\ UNCHANGED <<secfile, mk, boot, now, db, accounts, sec, vis, home, confirmed, stay, pending, reg>>

\* page_admin: save_json(PENDING_FILE, pending)
AdminSavePending(a) ==
    /\ adm[a].pc = "save_pending"
    /\ pending' = adm[a].pending
    /\ adm' = [adm EXCEPT ![a] = IdleAdm]
    /\ UNCHANGED <<secfile, mk, boot, now, db, accounts, users, sec, vis, home, confirmed, stay, reg>>

NextRegister ==
    \/ \E r \in RegSessions, e \in RegEmails, ph \in Phones, p \in RegPasswords,
          c \in Passwords : RegBegin(r, e, ph, p, c)
    \/ \E r \in RegSessions : RegCheck(r)
    \/ \E r \in RegSessions : RegSave(r)
    \/ \E a \in AdmSessions, act \in {"Approve", "Reject"} : AdminBegin(a, act)
    \/ \E a \in AdmSessions, sel \in RegEmails : AdminSelect(a, sel)
    \/ \E a \in AdmSessions : AdminSaveUsers(a)
    \/ \E a \in AdmSessions : AdminSavePending(a)

SpecRegister == Init /\ [][NextRegister]_vars

\* ----------------------------------------------------------------- claims
\* a save by the confirmation step of session s
ConfirmSaveStep(s) == sec[s].pc = "confirming" /\ sec'[s].pc = "idle"

\* a save by the identity gate of session v (the detector found a valid ID)
AcceptSaveStep(v) ==
    vis[v].pc = "detecting" /\ vis'[v].pc = "idle" /\ vis'[v].result = "Accepted"

\* the save of an issuance by session h
IssueSaveStep(h) == home[h].pc = "issuing" /\ home'[h].pc = "idle"

\* a run of page_visitor by session v up to its first return
VisitorRunStep(v) == vis[v].pc = "idle" /\ vis'[v] # vis[v]

\* a run of page_security by a logged-in session s up to its first return
SecurityRunStep(s) ==
    /\ sec[s].pc = "idle" /\ sec[s].logged_in /\ sec'[s].logged_in
    /\ sec'[s] # sec[s]

\* C1: when two security sessions confirm the same token with their loads
\* and saves interleaved, exactly one wins: the save of a confirmation never
\* lands on a record of that token whose scan_time is already set.
C1_LoserNeverRestamps ==
    [][\A s \in SecSessions :
         ConfirmSaveStep(s) =>
            ~(/\ db # <<>>
              /\ db[1].token = sec[s].data[1].token
              /\ db[1].scan_time # None)]_vars

\* C2: once a confirmation of a token has completed, no security run that
\* starts afterwards gets to confirm that token again.
C2_NoConfirmAfterConfirm ==
    [][\A s \in SecSessions :
         (sec[s].pc = "idle" /\ sec'[s].pc = "confirming") =>
            sec'[s].data[1].token \notin confirmed]_vars

\* C3: no save by the identity gate or by the confirmation step takes back,
\* for the token the store holds, an id_uploaded that is true or a scan_time
\* that is set.
C3_SavesAreMonotonic ==
    [][((\E s \in SecSessions : ConfirmSaveStep(s))
            \/ (\E v \in VisSessions : AcceptSaveStep(v)))
        /\ db # <<>> /\ db' # <<>> /\ db'[1].token = db[1].token
        => /\ db[1].id_uploaded => db'[1].id_uploaded
           /\ db[1].scan_time # None => db'[1].scan_time = db[1].scan_time]_vars

\* C4: a record whose scan_time is set has id_uploaded true.
C4_ConfirmedImpliesVerified ==
    (db # <<>> /\ db[1].scan_time # None) => db[1].id_uploaded

\* the session's login presented the name and password of a security account
SecAuthorized(s) ==
    \E i \in 1..Len(accounts) :
        /\ accounts[i].username = sec[s].user
        /\ accounts[i].password = hash_password(sec[s].pass)

\* C5: scan_time is stamped only by a session authorized in the security
\* role: security_logged_in is set only by a login that presented the name
\* and password of an account security_accounts.json holds at that login,
\* only a logged-in session is between the load and the save of a
\* confirmation, and a logout leaves the session outside a confirmation and
\* not logged in.
C5_StampOnlyByAuthorizedSecurity ==
    /\ [](\A s \in SecSessions : sec[s].pc = "confirming" => sec[s].logged_in)
    /\ [][\A s \in SecSessions :
            /\ (~sec[s].logged_in /\ sec'[s].logged_in) =>
                  (secfile /\ accounts' = accounts /\ SecAuthorized(s)')
            /\ ConfirmSaveStep(s) => sec[s].logged_in
            /\ (sec[s].logged_in /\ ~sec'[s].logged_in) => sec'[s].pc = "idle"]_vars

C5_Witness ==
    /\ sec["s1"].result = "LoggedOut"
    /\ db # <<>> /\ db[1].scan_time # None

\* C6 as claimed: a confirmation is recorded only for a presented token that
\* equals the token of the stored record.
C6_ConfirmNeedsPresentedToken ==
    \A s \in SecSessions :
        sec[s].pc = "confirming" =>
            sec[s].token # None /\ sec[s].token = sec[s].data[1].token

\* C6 as amended: a confirmation is recorded only by a run that presented
\* no token or the token of the record it loaded; a presented token that
\* matches no stored record gives "not recognized", and that run leaves the
\* store unchanged.
C6_ConfirmOnLoadedRecord ==
    /\ [](\A s \in SecSessions :
            sec[s].pc = "confirming" =>
               /\ sec[s].data # <<>>
               /\ sec[s].token \in {None, sec[s].data[1].token})
    /\ [](\A tok \in Tokens :
            (db = <<>> \/ db[1].token # tok) =>
               SecurityOutcome(db, tok, now) = "NotRecognized")
    /\ [][\A s \in SecSessions :
            (SecurityRunStep(s) /\ sec'[s].result = "NotRecognized") =>
               (db' = db /\ sec'[s].pc = "idle")]_vars

C6_Witness ==
    /\ sec["s1"].result = "NotRecognized"
    /\ db # <<>> /\ db[1].scan_time = None /\ now <= db[1].expiry_time

\* C7: for a stored record, at any time after its expiry_time, presenting
\* its token gives Expired on the visitor page and on the security page
\* whatever id_uploaded and scan_time are, and no run of either page gets
\* past the expiry check.
C7_ExpiredAfterDailyExpiry ==
    /\ []((db # <<>> /\ now > db[1].expiry_time) =>
            /\ VisitorOutcome(db, db[1].token, now) = "Expired"
            /\ \A tok \in {None, db[1].token} :
                  SecurityOutcome(db, tok, now) = "Expired")
    /\ [][(db # <<>> /\ now > db[1].expiry_time) =>
            /\ \A v \in VisSessions :
                  VisitorRunStep(v) =>
                     /\ vis'[v].pc = "idle"
                     /\ vis'[v].result \in
                           {"Expired", "NotRecognized", "InvalidToken"}
            /\ \A s \in SecSessions :
                  SecurityRunStep(s) =>
                     /\ sec'[s].pc = "idle"
                     /\ sec'[s].result \in {"Expired", "NotRecognized"}]_vars

C7_Witness ==
    /\ db # <<>> /\ now > db[1].expiry_time
    /\ db[1].id_uploaded /\ db[1].scan_time # None
    /\ vis["v1"].result = "Expired"
    /\ sec["s1"].result = "Expired"

\* C8: a scan_time that is set is not later than the record's expiry_time.
C8_StampWithinDailyExpiry ==
    (db # <<>> /\ db[1].scan_time # None) =>
        db[1].scan_time <= db[1].expiry_time

\* C9: an issuance whose generated token is the token of the stored record
\* leaves that record in the store, with its id_uploaded and scan_time as
\* they were.
C9_IssueNeverOverwrites ==
    [][\A h \in HomeSessions :
         (IssueSaveStep(h) /\ db # <<>> /\ db[1].token = home[h].token) =>
            /\ db' # <<>> /\ db'[1].token = db[1].token
            /\ db'[1].id_uploaded = db[1].id_uploaded
            /\ db'[1].scan_time = db[1].scan_time]_vars

\* C10 as claimed: issuing a record for a new token leaves the record of
\* every other token present and unchanged in the store.
C10_IssueKeepsOtherRecords ==
    [][\A h \in HomeSessions :
         (IssueSaveStep(h) /\ db # <<>> /\ db[1].token # home[h].token) =>
            \E i \in 1..Len(db') : db'[i] = db[1]]_vars

\* C10 as amended: the store holds at most one record; an issuance replaces
\* the whole store by the new record, so that right after it every other
\* token is not recognized.
C10_IssueReplacesStore ==
    /\ [](Len(db) <= 1)
    /\ [][\A h \in HomeSessions :
            IssueSaveStep(h) =>
               /\ db' = <<NewVisitor(home[h].token, home[h].expiry)>>
               /\ \A t \in Tokens \ {home[h].token} :
                     VisitorOutcome(db', t, now) = "NotRecognized"]_vars

C10_Witness ==
    /\ \E t \in confirmed : db # <<>> /\ db[1].token # t
    /\ db[1].scan_time = None /\ ~db[1].id_uploaded

\* the return of the detector run of session v
SubmitStep(v) == vis[v].pc = "detecting" /\ vis'[v].pc = "idle"

\* the class names of best.pt that stand for an identity document
IdentityClasses == {<<"I", "D">>}

\* at least one detection of the identity-document class at confidence
\* 0.70 or more (confidences are in thousandths)
MeetsThreshold(upload) ==
    \E i \in 1..Len(upload.boxes) :
        /\ upload.boxes[i].label \in IdentityClasses
        /\ upload.boxes[i].conf >= 700

\* C11: when the detector returns a list of detections, the submission is
\* accepted, and id_uploaded saved as true, if and only if one detection is
\* of the identity-document class at confidence 0.70 or more; every other
\* list is rejected and the store left as it is.
C11_AcceptIffIdAtThreshold ==
    [][\A v \in VisSessions :
         (SubmitStep(v) /\ ~vis[v].upload.raises) =>
            IF MeetsThreshold(vis[v].upload)
            THEN /\ vis'[v].result = "Accepted"
                 /\ db' = <<[vis[v].data[1] EXCEPT !.id_uploaded = TRUE]>>
            ELSE /\ vis'[v].result = "Rejected"
                 /\ db' = db]_vars

C11_Witness ==
    /\ vis["v1"].result = "Accepted" /\ vis["v1"].rejects > 0
    /\ db # <<>> /\ db[1].id_uploaded

\* C12: a rejected submission leaves the store unchanged and the session
\* free to submit again while the record is unexpired and unverified; a
\* submission that meets the threshold is accepted however many rejections
\* the session has had.
C12_RejectKeepsRecordAndRetry ==
    /\ [](\A v \in VisSessions :
            (/\ vis[v].rejects > 0 /\ vis[v].pc = "idle"
             /\ db # <<>> /\ ~db[1].id_uploaded /\ now <= db[1].expiry_time)
            => VisitorOutcome(db, db[1].token, now) = "NeedUpload")
    /\ [][\A v \in VisSessions :
            SubmitStep(v) =>
               /\ vis'[v].result = "Rejected" => db' = db
               /\ (MeetsThreshold(vis[v].upload) /\ ~vis[v].upload.raises) =>
                     /\ vis'[v].result = "Accepted"
                     /\ db' # <<>> /\ db'[1].id_uploaded]_vars

C12_Witness ==
    /\ vis["v1"].result = "Accepted" /\ vis["v1"].rejects = MaxRejects
    /\ db # <<>> /\ db[1].id_uploaded

\* C13: when the detector raises, the outcome of the submission is the
\* detector error, neither Rejected nor Accepted, and the store is unchanged.
C13_DetectorErrorIsDistinct ==
    [][\A v \in VisSessions :
         (SubmitStep(v) /\ vis[v].upload.raises) =>
            /\ vis'[v].result \notin {"Rejected", "Accepted"}
            /\ vis'[v].result = "DetectorError"
            /\ db' = db]_vars

C13_Witness ==
    /\ vis["v1"].result = "DetectorError"
    /\ db # <<>> /\ ~db[1].id_uploaded

\* C14: while the stored record has id_uploaded true, a visitor run does
\* not go to the detector and does not write the store, and with the
\* record's token presented before the expiry it proceeds to the gate QR.
C14_VerifiedSubmissionIsNoOp ==
    /\ []((db # <<>> /\ db[1].id_uploaded /\ now <= db[1].expiry_time) =>
            VisitorOutcome(db, db[1].token, now) = "ShowQR")
    /\ [][\A v \in VisSessions :
            (VisitorRunStep(v) /\ db # <<>> /\ db[1].id_uploaded) =>
               /\ vis'[v].pc = "idle"
               /\ db' = db
               /\ vis'[v].result \in
                     {"ShowQR", "Expired", "NotRecognized", "InvalidToken"}]_vars

C14_Witness ==
    /\ vis["v1"].result = "ShowQR"
    /\ db # <<>> /\ db[1].id_uploaded /\ now <= db[1].expiry_time

\* C15: a visitor-page or security-page run that only presents a token
\* leaves the store unchanged, and its outcome depends only on the store,
\* the token and whether the expiry has passed: at two times with the same
\* expiry status the outcome is the same.
C15_AuthenticateIsReadOnly ==
    /\ [](\A tok \in Tokens \cup {None}, t \in 0..MaxTime :
            (db = <<>> \/ ((t > db[1].expiry_time) <=> (now > db[1].expiry_time)))
            => /\ VisitorOutcome(db, tok, t) = VisitorOutcome(db, tok, now)
               /\ SecurityOutcome(db, tok, t) = SecurityOutcome(db, tok, now))
    /\ [][/\ \A v \in VisSessions :
               (VisitorRunStep(v) /\ vis'[v].pc = "idle") =>
                  /\ db' = db
                  /\ \E tok \in Tokens \cup {None} :
                        vis'[v].result = VisitorOutcome(db, tok, now)
          /\ \A s \in SecSessions :
               (SecurityRunStep(s) /\ sec'[s].pc = "idle") =>
                  /\ db' = db
                  /\ \E tok \in Tokens \cup {None} :
                        sec'[s].result = SecurityOutcome(db, tok, now)]_vars

C15_Witness ==
    /\ vis["v1"].result = "ShowQR"
    /\ sec["s1"].result = "AlreadyConfirmed"
    /\ db # <<>> /\ db[1].id_uploaded /\ db[1].scan_time # None

\* the remaining stay of the viewed record, in hundredths of a second
RemainingStay ==
    LET d == parse_estimated_time(stay.estimated_time).dur
    IN  stay.scan_time + d.sec * 100 + d.cs - stay.at

OneHour == <<"1", " ", "h", "o", "u", "r">>

\* C16: a view of a confirmed record before the daily expiry shows the time
\* left, (scan_time + duration) - now in whole seconds, when that is
\* positive, and the stay-expired message with nothing negative otherwise;
\* 1 hour confirmed at 09:10 leaves 30 minutes at 09:40 and nothing at
\* 10:15; a stay that has run out does not make the token Expired.
C16_RemainingStayClamped ==
    (stay.pc \in {"visitor", "security"}) =>
       /\ stay.at <= StayRecord.expiry_time =>
             /\ stay.outcome = IF stay.pc = "visitor" THEN "ShowQR" ELSE "AlreadyConfirmed"
             /\ stay.result.sec >= 0
             /\ IF RemainingStay > 0
                THEN /\ stay.result.kind = "TimeLeft"
                     /\ stay.result.sec * 100 <= RemainingStay
                     /\ RemainingStay < stay.result.sec * 100 + 100
                ELSE stay.result = [kind |-> "StayExpired", sec |-> 0]
       /\ (/\ stay.estimated_time = OneHour
           /\ stay.scan_time = Clock(9, 10, 0, 0)
           /\ stay.at = Clock(9, 40, 0, 0))
          => stay.result = [kind |-> "TimeLeft", sec |-> 30 * 60]
       /\ (/\ stay.estimated_time = OneHour
           /\ stay.scan_time = Clock(9, 10, 0, 0)
           /\ stay.at = Clock(10, 15, 0, 0))
          => stay.result = [kind |-> "StayExpired", sec |-> 0]

C16_Witness ==
    /\ stay.pc = "visitor" /\ stay.outcome = "ShowQR"
    /\ stay.estimated_time = OneHour
    /\ stay.scan_time = Clock(9, 10, 0, 0) /\ stay.at = Clock(10, 15, 0, 0)
    /\ stay.result.kind = "StayExpired"

\* the numbers and unit words of the claim, with the value of each number in
\* thousandths
NumberTokens ==
    { [str |-> <<"1">>, val |-> 1000], [str |-> <<"1", ".", "5">>, val |-> 1500],
      [str |-> <<"3", "0">>, val |-> 30000], [str |-> <<"4", "5">>, val |-> 45000] }

Separators == {<<>>, <<" ">>}

HourUnits == {<<"h", "o", "u", "r">>, <<"h", "r">>, <<"h">>}

MinuteUnits == {<<"m", "i", "n">>, <<"m", "i", "n", "s">>, <<"m">>}

\* C17: for a number followed, with or without a space, by hour, hr or h
\* the result is that number of hours, followed by min, mins or m that
\* number of minutes, and for 1:30 one hour and thirty minutes.
C17_RecognizedUnitsScaleExactly ==
    (stay.pc = "parsed") =>
       /\ \A n \in NumberTokens, sep \in Separators :
             /\ \A u \in HourUnits :
                   stay.estimated_time = n.str \o sep \o u
                   => stay.result.dur = Hours(n.val)
             /\ \A u \in MinuteUnits :
                   stay.estimated_time = n.str \o sep \o u
                   => stay.result.dur = Minutes(n.val)
       /\ stay.estimated_time = <<"1", ":", "3", "0">>
          => stay.result.dur = Duration(3600 + 30 * 60, 0)

\* none of the three branch conditions holds for the lowered and stripped
\* string: no hour / hr / trailing h, no min / trailing m, no colon
NoRecognizedUnit(str) ==
    LET s == Strip(Lower(str))
    IN  /\ ~Contains(s, <<"h", "o", "u", "r">>)
        /\ ~Contains(s, <<"h", "r">>)
        /\ ~(EndsWith(s, "h") /\ Len(s) > 1)
        /\ ~Contains(s, <<"m", "i", "n">>)
        /\ ~(EndsWith(s, "m") /\ Len(s) > 1)
        /\ ~Contains(s, <<":">>)

MalformedStrings ==
    { <<>>, <<"h">>, <<"m", "i", "n">>, <<"1", ":", "2", ":", "3">>, <<":">>,
      <<"s", "o", "o", "n">> }

\* C18: every call of parse_estimated_time returns a duration and none
\* raises; a string with no recognized unit, the empty string, a bare unit
\* and a malformed colon form give the 30 minutes default.
C18_ParseNeverFails ==
    (stay.pc = "parsed") =>
       /\ stay.result.kind = "return"
       /\ stay.result.dur.sec \in Nat
       /\ stay.result.dur.cs \in 0..99
       /\ NoRecognizedUnit(stay.estimated_time) => stay.result.dur = Duration(30 * 60, 0)
       /\ stay.estimated_time \in MalformedStrings => stay.result.dur = Duration(30 * 60, 0)

C18_Witness ==
    /\ stay.pc = "parsed"
    /\ stay.estimated_time = <<"1", ":", "2", ":", "3">>
    /\ stay.result = Returned(Duration(30 * 60, 0))

HomeAuthorized(h) ==
    /\ home[h].email \in DOMAIN users
    /\ \E p \in Passwords :
          /\ home[h].pass = p
          /\ users[home[h].email] = <<"sha256", p>>

\* C19: a record is issued only by a session with logged_in set; logged_in
\* is set only by a login with an approved email and the password whose
\* hash users.json holds for it; a session that has logged out is not in
\* the generator and issues nothing until it logs in again.
C19_IssueOnlyByAuthorizedHomeowner ==
    /\ [](\A h \in HomeSessions :
            /\ home[h].logged_in => HomeAuthorized(h)
            /\ home[h].pc = "issuing" => home[h].logged_in)
    /\ [][\A h \in HomeSessions :
            /\ IssueSaveStep(h) => (home[h].logged_in /\ HomeAuthorized(h))
            /\ (home[h].logged_in /\ ~home'[h].logged_in) => home'[h] = IdleHome
            /\ (~home[h].logged_in /\ db' # db) => ~IssueSaveStep(h)]_vars

C19_Witness ==
    /\ home["h1"].logged_in /\ home["h1"].pc = "issuing"
    /\ db # <<>>

\* the token of the record in the store, None for an empty store
StoredToken(data) == IF data = <<>> THEN None ELSE data[1].token

\* C20: the token held in the store changes only by an issuance step: the
\* save of an identity acceptance or of a confirmation never puts the record
\* it loaded earlier in the place of a record issued since.
C20_OnlyIssuerReplacesRecord ==
    [][StoredToken(db') # StoredToken(db) => \E h \in HomeSessions : IssueSaveStep(h)]_vars

\* no registration run and no admin run is between its load and its save
RegistryQuiescent ==
    /\ \A r \in RegSessions : reg[r].pc = "idle"
    /\ \A a \in AdmSessions : adm[a].pc = "idle"

\* C21: whenever no registration or admin run is in progress, no email is
\* both in pending.json and in users.json.
C21_PendingAndApprovedDisjoint ==
    RegistryQuiescent => DOMAIN pending \cap DOMAIN users = {}

====
